---- MODULE Spec2Model ----
(***************************************************************************)
(* Model of stickbot's GPIO wrapper classes (src/src/stickbot/gpio.py):    *)
(* DigitalPin and PWMPin objects forwarding to the GPIO library.  The      *)
(* library is an external collaborator; it is modelled as the record of    *)
(* what the wrappers tell it, and each of its calls may raise.  The        *)
(* process-wide helpers of src/src/stickbot/utils.py are modelled too.     *)
(***************************************************************************)
EXTENDS Integers, Sequences, FiniteSets, TLC

\* ------------------------------------------------------------------ bounds
NumHandles == 2
MaxCalls == 3

\* ------------------------------------------------- library constants/inputs
HIGH == "HIGH"
LOW == "LOW"
None == "None"
OUT == "OUT"
GPIO_IN == "IN"
BOARD == "BOARD"
BCM == "BCM"

Handles == 1..NumHandles
PinInputs == {7, 15, 41}
DirInputs == {GPIO_IN, OUT, "ALT"}
InitialInputs == {None, LOW, HIGH}
LevelInputs == {LOW, HIGH}
CtorFreqInputs == {1000}
FreqInputs == {0, 2000}
DutyInputs == {-10, 0, 100, 150}
HelperPins == {15}
BlinkTimes == {0, 1}
Models == {"JETSON_ORIN_NANO", "JETSON_ORIN_NX", "JETSON_ORIN", "FOO_BOARD"}

VARIABLES
    kind,           \* per handle: "none" (not constructed), "digital", "pwm"
    pin_number,     \* self.pin_number
    direction,      \* DigitalPin.direction
    current_value,  \* DigitalPin._current_value
    frequency,      \* PWMPin.frequency
    duty_cycle,     \* PWMPin._duty_cycle
    started,        \* PWMPin._started
    mode,           \* GPIO.getmode()
    function,       \* per pin: direction the library was last told to set up
    level,          \* per pin: level the library was last told to drive
    hal_pwm,        \* per handle: the GPIO.PWM object self._pwm
    released,       \* per handle: its pin was released by its cleanup() or by cleanup_gpio()
    run,            \* the current run of consecutive toggles of one handle
    ncalls,         \* number of wrapper calls made so far
    last            \* the last call: operation, handle, argument, outcome, library calls, return value

objVars == <<kind, pin_number, direction, current_value, frequency, duty_cycle, started>>
halPinVars == <<function, level>>
vars == <<kind, pin_number, direction, current_value, frequency, duty_cycle, started,
          mode, function, level, hal_pwm, released, run, ncalls, last>>

NoChannel == [freq |-> -1, duty |-> -1, running |-> FALSE]
NoRun == [h |-> 0, n |-> 0, before |-> None]

\* One call into the GPIO library, as the wrapper issues it.
Call(fn, pin, dir, val, num) == [fn |-> fn, pin |-> pin, dir |-> dir, val |-> val, num |-> num]

\* The record of the last wrapper call; prev is the handle's cached value before it.
Done(op, h, arg, outcome, calls, ret) ==
    [op |-> op, h |-> h, arg |-> arg, outcome |-> outcome, calls |-> calls, ret |-> ret,
     prev |-> current_value[h]]

\* The record of the last call of a module-level function of utils.py.
DoneGlobal(op, arg, outcome, calls, ret) ==
    [op |-> op, h |-> 0, arg |-> arg, outcome |-> outcome, calls |-> calls, ret |-> ret,
     prev |-> None]

Init ==
    /\ kind = [h \in Handles |-> "none"]
    /\ pin_number = [h \in Handles |-> 0]
    /\ direction = [h \in Handles |-> None]
    /\ current_value = [h \in Handles |-> None]
    /\ frequency = [h \in Handles |-> 0]
    /\ duty_cycle = [h \in Handles |-> 0]
    /\ started = [h \in Handles |-> FALSE]
    /\ mode \in {None, BCM}
    /\ function = [p \in PinInputs |-> None]
    /\ level = [p \in PinInputs |-> None]
    /\ hal_pwm = [h \in Handles |-> NoChannel]
    /\ released = [h \in Handles |-> FALSE]
    /\ run = NoRun
    /\ ncalls = 0
    /\ last = [op |-> "none", h |-> 0, arg |-> 0, outcome |-> "ok", calls |-> <<>>,
               ret |-> None, prev |-> None]

\* One more wrapper call is made.
Tick == ncalls < MaxCalls /\ ncalls' = ncalls + 1

\* Handles are numbered in the order in which they are constructed.
NextFree(h) == kind[h] = "none" /\ \A g \in Handles : g < h => kind[g] # "none"

\* ------------------------------------------------------------- DigitalPin

\* A preamble that never sees a conflicting numbering mode.
ModeConflict_Never == FALSE

\* gpio.py:45-49 and 119-123: the numbering-mode preamble of both constructors.
ModeCalls == IF mode = None THEN <<Call("setmode", 0, None, BOARD, 0)>> ELSE <<>>
ModeAfter == IF mode = None THEN BOARD ELSE mode
ModeConflict == mode # None /\ mode # BOARD

\* gpio.py:53,56: the GPIO.setup call of DigitalPin.__init__.
SetupCall(p, dir, initial_value) ==
    IF dir = OUT THEN Call("setup", p, OUT, initial_value, 0)
                 ELSE Call("setup", p, GPIO_IN, None, 0)

\* gpio.py:54,57: the cached value a new DigitalPin starts with.
InitialCache(dir, initial_value) ==
    IF dir = OUT THEN (IF initial_value # None THEN initial_value ELSE LOW) ELSE None

\* DigitalPin.__init__(pin_number, direction, initial_value)
DigitalPin_init(h, p, dir, initial_value, fault) ==
    /\ NextFree(h)
    /\ Tick
    /\ run' = NoRun
    /\ IF ModeConflict
       THEN /\ last' = Done("DigitalPin", h, 0, "ValueError", <<>>, None)
            /\ UNCHANGED <<objVars, mode, halPinVars, hal_pwm, released>>
       ELSE /\ mode' = ModeAfter
            /\ IF dir \notin {OUT, GPIO_IN}
               THEN /\ last' = Done("DigitalPin", h, 0, "ValueError", ModeCalls, None)
                    /\ UNCHANGED <<objVars, halPinVars, hal_pwm, released>>
               ELSE LET setup == SetupCall(p, dir, initial_value)
                    IN  IF fault
                        THEN /\ last' = Done("DigitalPin", h, 0, "HardwareFault",
                                             ModeCalls \o <<setup>>, None)
                             /\ UNCHANGED <<objVars, halPinVars, hal_pwm, released>>
                        ELSE /\ function' = [function EXCEPT ![p] = dir]
                             /\ level' = [level EXCEPT ![p] = setup.val]
                             /\ kind' = [kind EXCEPT ![h] = "digital"]
                             /\ pin_number' = [pin_number EXCEPT ![h] = p]
                             /\ direction' = [direction EXCEPT ![h] = dir]
                             /\ current_value' = [current_value EXCEPT
                                                    ![h] = InitialCache(dir, initial_value)]
                             /\ last' = Done("DigitalPin", h, 0, "ok", ModeCalls \o <<setup>>, None)
                             /\ UNCHANGED <<frequency, duty_cycle, started, hal_pwm, released>>

\* A direction guard that lets every handle through.
IsOutput_Always(h) == TRUE

\* gpio.py:63,70,77: the direction guard of set_high, set_low and toggle.
IsOutput(h) == direction[h] = OUT

\* A write that goes to pin 15 whichever pin the handle holds.
OutputCalls_Pin15(h, v) == <<Call("output", 15, None, v, 0)>>

\* A write that is skipped when the cached value already equals the level.
OutputCalls_SkipSame(h, v) ==
    IF current_value[h] = v THEN <<>> ELSE <<Call("output", pin_number[h], None, v, 0)>>

\* gpio.py:65,72: the GPIO.output call of set_high and set_low.
OutputCalls(h, v) == <<Call("output", pin_number[h], None, v, 0)>>

\* The body shared by set_high (gpio.py:61-66) and set_low (gpio.py:68-73):
\* direction guard, GPIO.output, cache update.  op names the public method called.
Write(op, h, v, fault) ==
    IF ~IsOutput(h)
    THEN /\ last' = Done(op, h, 0, "ValueError", <<>>, None)
         /\ UNCHANGED <<objVars, mode, halPinVars, hal_pwm, released>>
    ELSE LET calls == OutputCalls(h, v)
         IN  IF fault /\ calls # <<>>
             THEN /\ last' = Done(op, h, 0, "HardwareFault", calls, None)
                  /\ UNCHANGED <<objVars, mode, halPinVars, hal_pwm, released>>
             ELSE /\ level' = IF calls = <<>> THEN level
                                              ELSE [level EXCEPT ![pin_number[h]] = v]
                  /\ current_value' = [current_value EXCEPT ![h] = v]
                  /\ last' = Done(op, h, 0, "ok", calls, None)
                  /\ UNCHANGED <<kind, pin_number, direction, frequency, duty_cycle, started,
                                 mode, function, hal_pwm, released>>

\* DigitalPin.set_high()
set_high(h, fault) ==
    /\ kind[h] = "digital"
    /\ Tick
    /\ Write("set_high", h, HIGH, fault)
    /\ run' = NoRun

\* DigitalPin.set_low()
set_low(h, fault) ==
    /\ kind[h] = "digital"
    /\ Tick
    /\ Write("set_low", h, LOW, fault)
    /\ run' = NoRun

\* A toggle that writes the cached value back.
ToggleTarget_Same(v) == IF v = None THEN HIGH ELSE v

\* A toggle that always writes HIGH.
ToggleTarget_AlwaysHigh(v) == HIGH

\* gpio.py:79-82: the level toggle() writes, from the cached value.
ToggleTarget(v) == IF v = HIGH THEN LOW ELSE HIGH

\* The run of consecutive toggles after one more toggle of h that the
\* library did not interrupt.
RunAfterToggle(h) ==
    IF run.h = h /\ run.n = 1 THEN [h |-> h, n |-> 2, before |-> run.before]
                              ELSE [h |-> h, n |-> 1, before |-> current_value[h]]

\* DigitalPin.toggle()
toggle(h, fault) ==
    /\ kind[h] = "digital"
    /\ Tick
    /\ Write("toggle", h, ToggleTarget(current_value[h]), fault)
    /\ run' = IF last'.outcome = "HardwareFault" THEN NoRun ELSE RunAfterToggle(h)

\* A read that caches what the library returned whatever the direction.
ReadCache_Always(h, value) == value

\* A read that never updates the cache.
ReadCache_Never(h, value) == current_value[h]

\* gpio.py:87-88: the cached value after read() got value from the library.
ReadCache(h, value) == IF direction[h] = GPIO_IN THEN value ELSE current_value[h]

\* DigitalPin.read()
read(h, value, fault) ==
    /\ kind[h] = "digital"
    /\ Tick
    /\ LET input == Call("input", pin_number[h], None, None, 0)
       IN  IF fault
           THEN /\ last' = Done("read", h, 0, "HardwareFault", <<input>>, None)
                /\ UNCHANGED current_value
           ELSE /\ current_value' = [current_value EXCEPT ![h] = ReadCache(h, value)]
                /\ last' = Done("read", h, 0, "ok", <<input>>, value)
    /\ run' = NoRun
    /\ UNCHANGED <<kind, pin_number, direction, frequency, duty_cycle, started,
                   mode, halPinVars, hal_pwm, released>>

\* DigitalPin.cleanup()
DigitalPin_cleanup(h, fault) ==
    /\ kind[h] = "digital"
    /\ Tick
    /\ LET cleanup == Call("cleanup", pin_number[h], None, None, 0)
       IN  IF fault
           THEN /\ last' = Done("cleanup", h, 0, "HardwareFault", <<cleanup>>, None)
                /\ UNCHANGED <<halPinVars, released>>
           ELSE /\ function' = [function EXCEPT ![pin_number[h]] = None]
                /\ level' = [level EXCEPT ![pin_number[h]] = None]
                /\ released' = [released EXCEPT ![h] = TRUE]
                /\ last' = Done("cleanup", h, 0, "ok", <<cleanup>>, None)
    /\ run' = NoRun
    /\ UNCHANGED <<objVars, mode, hal_pwm>>

\* ----------------------------------------------------------------- PWMPin

\* A constructor that marks the new handle as running.
InitialStarted_Running == TRUE

\* gpio.py:117: the running flag a new PWMPin starts with.
InitialStarted == FALSE

\* PWMPin.__init__(pin_number, frequency); fault names the library call that raises.
PWMPin_init(h, p, freq, fault) ==
    /\ NextFree(h)
    /\ Tick
    /\ fault \in {"no", "setup", "PWM"}
    /\ run' = NoRun
    /\ IF ModeConflict
       THEN /\ last' = Done("PWMPin", h, freq, "ValueError", <<>>, None)
            /\ UNCHANGED <<objVars, mode, halPinVars, hal_pwm, released>>
       ELSE LET setup == Call("setup", p, OUT, LOW, 0)
                pwm == Call("PWM", p, None, None, freq)
            IN  /\ mode' = ModeAfter
                /\ IF fault = "setup"
                   THEN /\ last' = Done("PWMPin", h, freq, "HardwareFault",
                                        ModeCalls \o <<setup>>, None)
                        /\ UNCHANGED <<objVars, halPinVars, hal_pwm, released>>
                   ELSE /\ function' = [function EXCEPT ![p] = OUT]
                        /\ level' = [level EXCEPT ![p] = LOW]
                        /\ IF fault = "PWM"
                           THEN /\ last' = Done("PWMPin", h, freq, "HardwareFault",
                                                ModeCalls \o <<setup, pwm>>, None)
                                /\ UNCHANGED <<objVars, hal_pwm, released>>
                           ELSE /\ kind' = [kind EXCEPT ![h] = "pwm"]
                                /\ pin_number' = [pin_number EXCEPT ![h] = p]
                                /\ frequency' = [frequency EXCEPT ![h] = freq]
                                /\ duty_cycle' = [duty_cycle EXCEPT ![h] = 0]
                                /\ started' = [started EXCEPT ![h] = InitialStarted]
                                /\ hal_pwm' = [hal_pwm EXCEPT
                                     ![h] = [freq |-> freq, duty |-> 0, running |-> FALSE]]
                                /\ last' = Done("PWMPin", h, freq, "ok",
                                                ModeCalls \o <<setup, pwm>>, None)
                                /\ UNCHANGED <<direction, current_value, released>>

\* Validations that forget one side of the range.
DutyInRange_NoLower(d) == d <= 100
DutyInRange_NoUpper(d) == 0 <= d

\* gpio.py:138,159: the duty-cycle validation of start and change_duty_cycle.
DutyInRange(d) == 0 <= d /\ d <= 100

\* PWMPin.start(duty_cycle)
start(h, d, fault) ==
    /\ kind[h] = "pwm"
    /\ Tick
    /\ run' = NoRun
    /\ IF ~DutyInRange(d)
       THEN /\ last' = Done("start", h, d, "ValueError", <<>>, None)
            /\ UNCHANGED <<objVars, mode, halPinVars, hal_pwm, released>>
       ELSE /\ duty_cycle' = [duty_cycle EXCEPT ![h] = d]
            /\ IF fault
               THEN /\ last' = Done("start", h, d, "HardwareFault",
                                    <<Call("pwm.start", pin_number[h], None, None, d)>>, None)
                    /\ UNCHANGED <<started, hal_pwm>>
               ELSE /\ hal_pwm' = [hal_pwm EXCEPT ![h].duty = d, ![h].running = TRUE]
                    /\ started' = [started EXCEPT ![h] = TRUE]
                    /\ last' = Done("start", h, d, "ok",
                                    <<Call("pwm.start", pin_number[h], None, None, d)>>, None)
            /\ UNCHANGED <<kind, pin_number, direction, current_value, frequency,
                           mode, halPinVars, released>>

\* A stop that calls the library whether or not the channel is running.
StopCalls_Always(h) == <<Call("pwm.stop", pin_number[h], None, None, 0)>>

\* The body of PWMPin.stop() (gpio.py:145-149), also run by PWMPin.cleanup().
StopCalls(h) == IF started[h] THEN <<Call("pwm.stop", pin_number[h], None, None, 0)>> ELSE <<>>

\* PWMPin.stop()
stop(h, fault) ==
    /\ kind[h] = "pwm"
    /\ Tick
    /\ fault => started[h]
    /\ run' = NoRun
    /\ IF fault
       THEN /\ last' = Done("stop", h, 0, "HardwareFault", StopCalls(h), None)
            /\ UNCHANGED <<started, hal_pwm>>
       ELSE /\ started' = [started EXCEPT ![h] = FALSE]
            /\ hal_pwm' = IF StopCalls(h) # <<>> THEN [hal_pwm EXCEPT ![h].running = FALSE]
                                                 ELSE hal_pwm
            /\ last' = Done("stop", h, 0, "ok", StopCalls(h), None)
    /\ UNCHANGED <<kind, pin_number, direction, current_value, frequency, duty_cycle,
                   mode, halPinVars, released>>

\* A frequency change that is pushed to the library also while stopped.
ChangeFrequencyCalls_Always(h, freq) ==
    <<Call("pwm.ChangeFrequency", pin_number[h], None, None, freq)>>

\* gpio.py:154-155: the library call of change_frequency, made only while started.
ChangeFrequencyCalls(h, freq) ==
    IF started[h] THEN <<Call("pwm.ChangeFrequency", pin_number[h], None, None, freq)>>
                  ELSE <<>>

\* PWMPin.change_frequency(frequency)
change_frequency(h, freq, fault) ==
    /\ kind[h] = "pwm"
    /\ Tick
    /\ fault => started[h]
    /\ run' = NoRun
    /\ frequency' = [frequency EXCEPT ![h] = freq]
    /\ LET calls == ChangeFrequencyCalls(h, freq)
       IN  IF fault
           THEN /\ last' = Done("change_frequency", h, freq, "HardwareFault", calls, None)
                /\ UNCHANGED hal_pwm
           ELSE /\ hal_pwm' = IF calls # <<>> THEN [hal_pwm EXCEPT ![h].freq = freq] ELSE hal_pwm
                /\ last' = Done("change_frequency", h, freq, "ok", calls, None)
    /\ UNCHANGED <<kind, pin_number, direction, current_value, duty_cycle, started,
                   mode, halPinVars, released>>

\* A duty-cycle change that is pushed to the library also while stopped.
ChangeDutyCalls_Always(h, d) ==
    <<Call("pwm.ChangeDutyCycle", pin_number[h], None, None, d)>>

\* gpio.py:163-164: the library call of change_duty_cycle, made only while started.
ChangeDutyCalls(h, d) ==
    IF started[h] THEN <<Call("pwm.ChangeDutyCycle", pin_number[h], None, None, d)>>
                  ELSE <<>>

\* PWMPin.change_duty_cycle(duty_cycle)
change_duty_cycle(h, d, fault) ==
    /\ kind[h] = "pwm"
    /\ Tick
    /\ fault => started[h] /\ DutyInRange(d)
    /\ run' = NoRun
    /\ IF ~DutyInRange(d)
       THEN /\ last' = Done("change_duty_cycle", h, d, "ValueError", <<>>, None)
            /\ UNCHANGED <<objVars, mode, halPinVars, hal_pwm, released>>
       ELSE LET calls == ChangeDutyCalls(h, d)
            IN  /\ duty_cycle' = [duty_cycle EXCEPT ![h] = d]
                /\ IF fault
                   THEN /\ last' = Done("change_duty_cycle", h, d, "HardwareFault", calls, None)
                        /\ UNCHANGED hal_pwm
                   ELSE /\ hal_pwm' = IF calls # <<>> THEN [hal_pwm EXCEPT ![h].duty = d]
                                                     ELSE hal_pwm
                        /\ last' = Done("change_duty_cycle", h, d, "ok", calls, None)
                /\ UNCHANGED <<kind, pin_number, direction, current_value, frequency, started,
                               mode, halPinVars, released>>

\* A cleanup that releases the pin before it stops the channel.
CleanupCalls_ReleaseFirst(h) ==
    <<Call("cleanup", pin_number[h], None, None, 0)>> \o StopCalls(h)

\* gpio.py:180-181: the library calls of PWMPin.cleanup(), in order: those of
\* stop(), then GPIO.cleanup(pin_number).
CleanupCalls(h) == StopCalls(h) \o <<Call("cleanup", pin_number[h], None, None, 0)>>

\* PWMPin.cleanup(); fault names the library call that raises.
PWMPin_cleanup(h, fault) ==
    /\ kind[h] = "pwm"
    /\ Tick
    /\ fault \in {"no", "stop", "cleanup"}
    /\ fault = "stop" => started[h]
    /\ run' = NoRun
    /\ LET cleanup == Call("cleanup", pin_number[h], None, None, 0)
       IN  IF fault = "stop"
           THEN /\ last' = Done("cleanup", h, 0, "HardwareFault", StopCalls(h), None)
                /\ UNCHANGED <<started, hal_pwm, halPinVars, released>>
           ELSE /\ started' = [started EXCEPT ![h] = FALSE]
                /\ hal_pwm' = IF started[h] THEN [hal_pwm EXCEPT ![h].running = FALSE]
                                            ELSE hal_pwm
                /\ IF fault = "cleanup"
                   THEN /\ last' = Done("cleanup", h, 0, "HardwareFault", CleanupCalls(h), None)
                        /\ UNCHANGED <<halPinVars, released>>
                   ELSE /\ function' = [function EXCEPT ![pin_number[h]] = None]
                        /\ level' = [level EXCEPT ![pin_number[h]] = None]
                        /\ released' = [released EXCEPT ![h] = TRUE]
                        /\ last' = Done("cleanup", h, 0, "ok", CleanupCalls(h), None)
    /\ UNCHANGED <<kind, pin_number, direction, current_value, frequency, duty_cycle, mode>>

\* PWMPin.__del__(), run when the object is collected: stop() if started.  The
\* interpreter swallows what a destructor raises, and the object is gone
\* afterwards whatever happened.
PWMPin_del(h, fault) ==
    /\ kind[h] = "pwm"
    /\ Tick
    /\ fault => started[h]
    /\ run' = NoRun
    /\ kind' = [kind EXCEPT ![h] = "deleted"]
    /\ IF fault
       THEN /\ last' = Done("__del__", h, 0, "ignored", StopCalls(h), None)
            /\ UNCHANGED <<started, hal_pwm>>
       ELSE /\ started' = [started EXCEPT ![h] = FALSE]
            /\ hal_pwm' = IF StopCalls(h) # <<>> THEN [hal_pwm EXCEPT ![h].running = FALSE]
                                                 ELSE hal_pwm
            /\ last' = Done("__del__", h, 0, "ok", StopCalls(h), None)
    /\ UNCHANGED <<pin_number, direction, current_value, frequency, duty_cycle,
                   mode, halPinVars, released>>

FaultInputs == {"no", "setup", "PWM", "stop", "cleanup", "input", "wait_for_edge"}

\* ---------------------------------------------------------------- utils.py

\* setup_gpio(): GPIO.setmode(GPIO.BOARD) unconditionally, then
\* GPIO.setwarnings(True).  The GPIO.model string it returns is not recorded.
setup_gpio(fault) ==
    /\ Tick
    /\ run' = NoRun
    /\ LET setmode == Call("setmode", 0, None, BOARD, 0)
           setwarnings == Call("setwarnings", 0, None, None, 0)
       IN  IF fault
           THEN /\ last' = DoneGlobal("setup_gpio", 0, "HardwareFault", <<setmode>>, None)
                /\ UNCHANGED mode
           ELSE /\ mode' = BOARD
                /\ last' = DoneGlobal("setup_gpio", 0, "ok", <<setmode, setwarnings>>, None)
    /\ UNCHANGED <<objVars, halPinVars, hal_pwm, released>>

\* A process-wide cleanup that leaves the pins as they were.
CleanupAll_Nothing(f) == f

\* What GPIO.cleanup() without a channel does to a per-pin table: every pin
\* is released.
CleanupAll(f) == [p \in DOMAIN f |-> None]

\* cleanup_gpio(): GPIO.cleanup() for every channel; the library then also
\* forgets the numbering mode.  No wrapper object is told.
cleanup_gpio(fault) ==
    /\ Tick
    /\ run' = NoRun
    /\ LET cleanup == Call("cleanup", 0, None, None, 0)
       IN  IF fault
           THEN /\ last' = DoneGlobal("cleanup_gpio", 0, "HardwareFault", <<cleanup>>, None)
                /\ UNCHANGED <<mode, halPinVars, released>>
           ELSE /\ function' = CleanupAll(function)
                /\ level' = CleanupAll(level)
                /\ mode' = None
                /\ released' = [h \in Handles |-> kind[h] # "none"]
                /\ last' = DoneGlobal("cleanup_gpio", 0, "ok", <<cleanup>>, None)
    /\ UNCHANGED <<objVars, hal_pwm>>

\* read_pin_state(pin); fault names the library call that raises.
read_pin_state(p, value, fault) ==
    /\ Tick
    /\ fault \in {"no", "setup", "input"}
    /\ run' = NoRun
    /\ mode' = ModeAfter
    /\ LET setup == Call("setup", p, GPIO_IN, None, 0)
           input == Call("input", p, None, None, 0)
       IN  IF fault = "setup"
           THEN /\ last' = DoneGlobal("read_pin_state", p, "HardwareFault",
                                      ModeCalls \o <<setup>>, None)
                /\ UNCHANGED halPinVars
           ELSE /\ function' = [function EXCEPT ![p] = GPIO_IN]
                /\ level' = [level EXCEPT ![p] = None]
                /\ IF fault = "input"
                   THEN last' = DoneGlobal("read_pin_state", p, "HardwareFault",
                                           ModeCalls \o <<setup, input>>, None)
                   ELSE last' = DoneGlobal("read_pin_state", p, "ok",
                                           ModeCalls \o <<setup, input>>, value)
    /\ UNCHANGED <<objVars, hal_pwm, released>>

\* wait_for_signal(pin, edge_type, timeout); detected: an edge came before the
\* timeout.  fault names the library call that raises.
wait_for_signal(p, detected, fault) ==
    /\ Tick
    /\ fault \in {"no", "setup", "wait_for_edge"}
    /\ run' = NoRun
    /\ LET setup == Call("setup", p, GPIO_IN, None, 0)
           wait == Call("wait_for_edge", p, None, None, 0)
       IN  IF mode # BOARD
           THEN /\ last' = DoneGlobal("wait_for_signal", p, "ValueError", <<>>, None)
                /\ UNCHANGED halPinVars
           ELSE IF fault = "setup"
           THEN /\ last' = DoneGlobal("wait_for_signal", p, "HardwareFault", <<setup>>, None)
                /\ UNCHANGED halPinVars
           ELSE /\ function' = [function EXCEPT ![p] = GPIO_IN]
                /\ level' = [level EXCEPT ![p] = None]
                /\ IF fault = "wait_for_edge"
                   THEN last' = DoneGlobal("wait_for_signal", p, "HardwareFault",
                                           <<setup, wait>>, None)
                   ELSE last' = DoneGlobal("wait_for_signal", p, "ok", <<setup, wait>>,
                                           IF detected THEN p ELSE None)
    /\ UNCHANGED <<objVars, mode, hal_pwm, released>>

\* utils.py:68-71: the k-th step of the loop of blink_led; every iteration is
\* output HIGH, sleep, output LOW, sleep.
LoopStep(p, k) ==
    CASE k % 4 = 1 -> Call("output", p, None, HIGH, 0)
      [] k % 4 = 3 -> Call("output", p, None, LOW, 0)
      [] OTHER -> Call("sleep", 0, None, None, 0)

\* The loop steps blink_led issues: all of them (stopAt = 0), or those up to
\* and including the one that raises.
LoopCalls(p, times, stopAt) ==
    [k \in 1..(IF stopAt = 0 THEN 4 * times ELSE stopAt) |-> LoopStep(p, k)]

\* A blink_led without its finally clause.
FinallyCalls_None(p) == <<>>

\* utils.py:73-74: the finally clause of blink_led.
FinallyCalls(p) == <<Call("output", p, None, LOW, 0)>>

\* The level of a pin set up LOW after the calls in done went through.
LevelAfter(done) ==
    LET outs == {i \in 1..Len(done) : done[i].fn = "output"}
    IN  IF outs = {} THEN LOW
        ELSE done[CHOOSE i \in outs : \A j \in outs : j <= i].val

\* blink_led(pin, duration, times).  stopAt = -1: GPIO.setup raises; 0: no
\* step of the loop raises; k > 0: the k-th step of the loop raises.
\* finalFault: the GPIO.output of the finally clause raises.
blink_led(p, times, stopAt, finalFault) ==
    /\ Tick
    /\ stopAt \in -1..(4 * times)
    /\ stopAt = -1 => ~finalFault
    /\ run' = NoRun
    /\ mode' = ModeAfter
    /\ LET setup == Call("setup", p, OUT, LOW, 0)
           loop == LoopCalls(p, times, stopAt)
           passed == IF stopAt > 0 THEN SubSeq(loop, 1, stopAt - 1) ELSE loop
           final == FinallyCalls(p)
           done == passed \o (IF finalFault THEN <<>> ELSE final)
           outcome == IF finalFault THEN "HardwareFault"
                      ELSE IF stopAt = 0 THEN "ok"
                      ELSE IF loop[stopAt].fn = "sleep" THEN "Interrupted"
                      ELSE "HardwareFault"
       IN  IF stopAt = -1
           THEN /\ last' = DoneGlobal("blink_led", p, "HardwareFault",
                                      ModeCalls \o <<setup>>, None)
                /\ UNCHANGED halPinVars
           ELSE /\ function' = [function EXCEPT ![p] = OUT]
                /\ level' = [level EXCEPT ![p] = LevelAfter(done)]
                /\ last' = DoneGlobal("blink_led", p, outcome,
                                      ModeCalls \o <<setup>> \o loop \o final, None)
    /\ UNCHANGED <<objVars, hal_pwm, released>>

\* A digital pin list that leaves out the pins with hardware PWM.
DigitalPins_NoPwm == <<7, 11, 12, 13, 16, 19, 21, 22, 23, 24, 26, 29, 31, 32, 35, 36, 37, 38, 40>>

\* utils.py:106,115,123,134: the digital pin list shared by every entry.
DigitalPins == <<7, 11, 12, 13, 15, 16, 18, 19, 21, 22, 23, 24, 26, 29, 31, 32, 33, 35, 36,
                 37, 38, 40>>

\* utils.py:104-130: the board_pins dictionary (notes: the keys only).
board_pins ==
    [m \in {"JETSON_ORIN_NANO", "JETSON_ORIN_NX", "JETSON_ORIN"} |->
        CASE m = "JETSON_ORIN_NANO" ->
                 [digital |-> DigitalPins, pwm_capable |-> <<15, 33>>, notes |-> <<15, 33, 36>>]
          [] m = "JETSON_ORIN_NX" ->
                 [digital |-> DigitalPins, pwm_capable |-> <<15, 33>>, notes |-> <<15, 33>>]
          [] m = "JETSON_ORIN" ->
                 [digital |-> DigitalPins, pwm_capable |-> <<15, 18>>, notes |-> <<15, 18>>]]

\* utils.py:133-137: the default of board_pins.get for an unknown model.
Fallback == [digital |-> DigitalPins, pwm_capable |-> <<>>, notes |-> <<"unknown">>]

\* A lookup that answers an unknown model with the Orin Nano entry.
Lookup_NoFallback(m) ==
    IF m \in DOMAIN board_pins THEN board_pins[m] ELSE board_pins["JETSON_ORIN_NANO"]

\* utils.py:132-137: board_pins.get(model, fallback).
Lookup(m) == IF m \in DOMAIN board_pins THEN board_pins[m] ELSE Fallback

\* get_available_pins(), with m the value of GPIO.model it reads.
get_available_pins(m) ==
    /\ Tick
    /\ run' = NoRun
    /\ last' = DoneGlobal("get_available_pins", 0, "ok", <<>>, [model |-> m] @@ Lookup(m))
    /\ UNCHANGED <<objVars, mode, halPinVars, hal_pwm, released>>

Next ==
    \/ \E h \in Handles, p \in PinInputs, d \in DirInputs, i \in InitialInputs, f \in BOOLEAN :
           DigitalPin_init(h, p, d, i, f)
    \/ \E h \in Handles, f \in BOOLEAN : set_high(h, f)
    \/ \E h \in Handles, f \in BOOLEAN : set_low(h, f)
    \/ \E h \in Handles, f \in BOOLEAN : toggle(h, f)
    \/ \E h \in Handles, v \in LevelInputs, f \in BOOLEAN : read(h, v, f)
    \/ \E h \in Handles, f \in BOOLEAN : DigitalPin_cleanup(h, f)
    \/ \E h \in Handles, p \in PinInputs, fr \in CtorFreqInputs, f \in FaultInputs :
           PWMPin_init(h, p, fr, f)
    \/ \E h \in Handles, d \in DutyInputs, f \in BOOLEAN : start(h, d, f)
    \/ \E h \in Handles, f \in BOOLEAN : stop(h, f)
    \/ \E h \in Handles, fr \in FreqInputs, f \in BOOLEAN : change_frequency(h, fr, f)
    \/ \E h \in Handles, d \in DutyInputs, f \in BOOLEAN : change_duty_cycle(h, d, f)
    \/ \E h \in Handles, f \in FaultInputs : PWMPin_cleanup(h, f)
    \/ \E h \in Handles, f \in BOOLEAN : PWMPin_del(h, f)
    \/ \E f \in BOOLEAN : setup_gpio(f)
    \/ \E f \in BOOLEAN : cleanup_gpio(f)
    \/ \E p \in HelperPins, v \in LevelInputs, f \in FaultInputs : read_pin_state(p, v, f)
    \/ \E p \in HelperPins, t \in BlinkTimes, s \in -1..4, ff \in BOOLEAN :
           blink_led(p, t, s, ff)
    \/ \E p \in HelperPins, d \in BOOLEAN, f \in FaultInputs : wait_for_signal(p, d, f)
    \/ \E m \in Models : get_available_pins(m)

Spec == Init /\ [][Next]_vars

\* The state after DigitalPin(15, GPIO.OUT, GPIO.LOW) and its cleanup(), from
\* which calls are counted afresh.
InitAfterRelease ==
    /\ kind = [h \in Handles |-> IF h = 1 THEN "digital" ELSE "none"]
    /\ pin_number = [h \in Handles |-> IF h = 1 THEN 15 ELSE 0]
    /\ direction = [h \in Handles |-> IF h = 1 THEN OUT ELSE None]
    /\ current_value = [h \in Handles |-> IF h = 1 THEN LOW ELSE None]
    /\ frequency = [h \in Handles |-> 0]
    /\ duty_cycle = [h \in Handles |-> 0]
    /\ started = [h \in Handles |-> FALSE]
    /\ mode = BOARD
    /\ function = [p \in PinInputs |-> None]
    /\ level = [p \in PinInputs |-> None]
    /\ hal_pwm = [h \in Handles |-> NoChannel]
    /\ released = [h \in Handles |-> h = 1]
    /\ run = NoRun
    /\ ncalls = 0
    /\ last = [op |-> "cleanup", h |-> 1, arg |-> 0, outcome |-> "ok",
               calls |-> <<Call("cleanup", 15, None, None, 0)>>, ret |-> None, prev |-> LOW]

\* The calls that can follow a release.
SpecAfterRelease == InitAfterRelease /\ [][Next]_vars

\* ----------------------------------------------------------------- claims

\* The library calls of the last wrapper call that went to a PWM channel.
PwmCalls(calls) ==
    {i \in 1..Len(calls) : calls[i].fn \in {"pwm.start", "pwm.stop", "pwm.ChangeFrequency",
                                            "pwm.ChangeDutyCycle"}}

\* C1: start and change_duty_cycle with a duty cycle outside [0,100] raise,
\* make no PWM library call and leave the running flag and the stored duty
\* cycle as they were.
C1_InvalidDutyRejected ==
    [][(last'.op \in {"start", "change_duty_cycle"} /\ ~(0 <= last'.arg /\ last'.arg <= 100))
         => /\ last'.outcome = "ValueError"
            /\ PwmCalls(last'.calls) = {}
            /\ started' = started
            /\ duty_cycle' = duty_cycle
            /\ hal_pwm' = hal_pwm]_vars

\* start(100) then change_duty_cycle(150): rejected, still running at 100.
C1_Witness ==
    /\ last.op = "change_duty_cycle"
    /\ last.arg = 150
    /\ last.outcome = "ValueError"
    /\ started[last.h]
    /\ duty_cycle[last.h] = 100

\* C2: in every reachable state the stored duty cycle of every PWMPin lies
\* in [0,100].
C2_DutyWithinBounds ==
    \A h \in Handles : kind[h] = "pwm" => (0 <= duty_cycle[h] /\ duty_cycle[h] <= 100)

\* A PWMPin that holds the upper bound after a rejected start(-10).
C2_Witness ==
    /\ last.op = "start"
    /\ last.arg = -10
    /\ last.outcome = "ValueError"
    /\ duty_cycle[last.h] = 100

\* A handle is live from its construction until its cleanup completes.
Live(h) == kind[h] # "none" /\ ~released[h]

\* C3: at most one live handle exists per pin number.
C3_OneLiveHandlePerPin ==
    \A g, h \in Handles : (g # h /\ Live(g) /\ Live(h)) => pin_number[g] # pin_number[h]

\* C4: every operation on a handle whose cleanup has completed fails with a
\* handle-released error and makes no library call.
C4_ReleasedHandleUnusable ==
    [][(last'.op \in {"set_high", "set_low", "toggle", "read", "start", "stop",
                      "change_duty_cycle", "change_frequency"} /\ released[last'.h])
         => (last'.outcome = "HandleReleasedError" /\ last'.calls = <<>>)]_vars

\* C5: a DigitalPin acquired as output tells the library to drive the line to
\* the initial value, Low when none is given, and caches that same level.
C5_OutputDrivenAtAcquire ==
    (last.op = "DigitalPin" /\ last.outcome = "ok" /\ direction[last.h] = OUT)
        => LET setup == last.calls[Len(last.calls)]
           IN  /\ setup.fn = "setup"
               /\ setup.val \in {LOW, HIGH}
               /\ setup.val = current_value[last.h]

\* C6: set_high, set_low and toggle on a handle that is not an output raise,
\* make no library call and leave the cached value unchanged.
C6_WriteNeedsOutput ==
    [][(last'.op \in {"set_high", "set_low", "toggle"} /\ direction[last'.h] # OUT)
         => /\ last'.outcome = "ValueError"
            /\ last'.calls = <<>>
            /\ current_value' = current_value
            /\ level' = level]_vars

\* toggle rejected on an input handle whose cache holds a value that was read.
C6_Witness ==
    /\ last.op = "toggle"
    /\ last.outcome = "ValueError"
    /\ direction[last.h] = GPIO_IN
    /\ current_value[last.h] = HIGH

\* C7: every successful set_high / set_low issues exactly the GPIO.output call
\* for the requested level, also when the cache already holds that level, and
\* afterwards the cache equals the level the library was last told to drive.
C7_WriteAlwaysReachesLibrary ==
    [][(last'.op \in {"set_high", "set_low"} /\ last'.outcome = "ok")
         => LET h == last'.h
                v == IF last'.op = "set_high" THEN HIGH ELSE LOW
            IN  /\ last'.calls = <<Call("output", pin_number[h], None, v, 0)>>
                /\ current_value'[h] = v
                /\ level'[pin_number[h]] = current_value'[h]]_vars

\* set_low succeeded on a handle whose cache was already LOW.
C7_Witness ==
    /\ last.op = "set_low"
    /\ last.outcome = "ok"
    /\ last.prev = LOW
    /\ Len(last.calls) = 1

\* C8: two toggles of a handle in succession restore its cached value.
C8_ToggleTwiceRestores ==
    run.n = 2 => current_value[run.h] = run.before

\* Two successive toggles of an output handle, both reaching the library.
C8_Witness ==
    /\ run.n = 2
    /\ direction[run.h] = OUT
    /\ last.outcome = "ok"
    /\ last.prev # run.before

\* C9: an input handle starts with no cached value and no initial level passed
\* to the library; every read queries the library, and a read that returns
\* caches the value the library returned.
C9_InputReadUpdatesCache ==
    /\ (last.op = "DigitalPin" /\ last.outcome = "ok" /\ direction[last.h] = GPIO_IN)
         => /\ current_value[last.h] = None
            /\ last.calls[Len(last.calls)] = Call("setup", pin_number[last.h], GPIO_IN, None, 0)
    /\ (last.op = "read" /\ direction[last.h] = GPIO_IN)
         => /\ last.calls = <<Call("input", pin_number[last.h], None, None, 0)>>
            /\ last.outcome = "ok" => (last.ret \in {LOW, HIGH} /\ current_value[last.h] = last.ret)

\* A read of an input handle that replaced the cached value.
C9_Witness ==
    /\ last.op = "read"
    /\ last.outcome = "ok"
    /\ direction[last.h] = GPIO_IN
    /\ last.prev = LOW
    /\ current_value[last.h] = HIGH

\* C10: after a successful start(d) the handle is running with duty d and the
\* PWM channel generates at the handle's stored frequency and duty cycle.
C10_StartUsesStoredFrequency ==
    (last.op = "start" /\ last.outcome = "ok")
        => /\ started[last.h]
           /\ duty_cycle[last.h] = last.arg
           /\ hal_pwm[last.h] = [freq |-> frequency[last.h], duty |-> last.arg, running |-> TRUE]

\* C11: stop on a running handle calls the library's stop exactly once and
\* clears the running flag; on a stopped handle it returns normally, calls
\* nothing and leaves the handle stopped.
C11_StopIdempotent ==
    [][last'.op = "stop"
         => LET h == last'.h
            IN  IF started[h]
                THEN /\ last'.calls = <<Call("pwm.stop", pin_number[h], None, None, 0)>>
                     /\ last'.outcome = "ok" => (~started'[h] /\ ~hal_pwm'[h].running)
                ELSE /\ last'.outcome = "ok"
                     /\ last'.calls = <<>>
                     /\ ~started'[h]
                     /\ hal_pwm' = hal_pwm]_vars

\* stop returned on a handle that was already stopped.
C11_Witness ==
    /\ last.op = "stop"
    /\ last.outcome = "ok"
    /\ last.calls = <<>>
    /\ ~started[last.h]
    /\ ~hal_pwm[last.h].running
    /\ ncalls = MaxCalls

\* C12: change_duty_cycle with a valid value stores it; while stopped it calls
\* nothing and the channel keeps its programming; while running it calls the
\* library's duty-cycle change only (no stop or start) and stays running.
C12_DutyChangeStoredPushedWhenRunning ==
    [][(last'.op = "change_duty_cycle" /\ 0 <= last'.arg /\ last'.arg <= 100)
         => LET h == last'.h
                d == last'.arg
            IN  /\ duty_cycle'[h] = d
                /\ started'[h] = started[h]
                /\ IF started[h]
                   THEN /\ last'.calls = <<Call("pwm.ChangeDutyCycle", pin_number[h],
                                                None, None, d)>>
                        /\ last'.outcome = "ok"
                             => hal_pwm'[h] = [hal_pwm[h] EXCEPT !.duty = d]
                   ELSE /\ last'.outcome = "ok"
                        /\ last'.calls = <<>>
                        /\ hal_pwm' = hal_pwm]_vars

\* A value stored while stopped that the channel has not been given.
C12_Witness ==
    /\ last.op = "change_duty_cycle"
    /\ last.outcome = "ok"
    /\ last.calls = <<>>
    /\ duty_cycle[last.h] = 100
    /\ hal_pwm[last.h].duty = 0

\* C14: change_frequency with a positive frequency stores it, calls the
\* library's frequency change exactly when the handle is running, never
\* stops or starts the channel and never changes the running flag.
C14_FrequencyStoredPushedWhenRunning ==
    [][(last'.op = "change_frequency" /\ last'.arg > 0)
         => LET h == last'.h
                f == last'.arg
            IN  /\ frequency'[h] = f
                /\ started' = started
                /\ hal_pwm'[h].running = hal_pwm[h].running
                /\ last'.calls = IF started[h]
                                 THEN <<Call("pwm.ChangeFrequency", pin_number[h],
                                             None, None, f)>>
                                 ELSE <<>>]_vars

\* A frequency change on a running handle that reached the channel.
C14_Witness ==
    /\ last.op = "change_frequency"
    /\ last.outcome = "ok"
    /\ started[last.h]
    /\ Len(last.calls) = 1
    /\ hal_pwm[last.h].freq = 2000
    /\ frequency[last.h] = 2000

\* C13: change_frequency with a frequency <= 0 fails with an out-of-range
\* error and leaves the stored frequency, the running flag and the channel
\* unchanged.
C13_NonPositiveFrequencyRejected ==
    [][(last'.op = "change_frequency" /\ last'.arg <= 0)
         => /\ last'.outcome = "ValueError"
            /\ frequency' = frequency
            /\ started' = started
            /\ hal_pwm' = hal_pwm]_vars

\* The elements of a list.
ToSet(seq) == {seq[i] : i \in 1..Len(seq)}

\* C15: constructing a DigitalPin or PWMPin with a pin number outside 1..40
\* fails before any GPIO.setup, so no setup call ever carries such a pin and
\* no handle holds one.
C15_PinRangeChecked ==
    last.op \in {"DigitalPin", "PWMPin"}
        => /\ \A i \in 1..Len(last.calls) :
                  last.calls[i].fn = "setup" => last.calls[i].pin \in 1..40
           /\ last.outcome = "ok" => pin_number[last.h] \in 1..40

\* C16: the numbering mode, once BOARD, stays BOARD across acquisitions,
\* setup_gpio and helper calls; the first value it is set to is BOARD; an
\* acquisition under another mode raises and sets up no pin; setup_gpio under
\* BOARD changes nothing.
C16_NumberingModeSetOnce ==
    [][/\ (mode = BOARD /\ last'.op # "cleanup_gpio") => mode' = BOARD
       /\ (mode = None /\ mode' # None) => mode' = BOARD
       /\ (mode \notin {None, BOARD} /\ last'.op \in {"DigitalPin", "PWMPin"})
            => /\ last'.outcome = "ValueError"
               /\ last'.calls = <<>>
               /\ UNCHANGED <<objVars, mode, halPinVars, hal_pwm>>
       /\ (mode = BOARD /\ last'.op = "setup_gpio")
            => UNCHANGED <<objVars, mode, halPinVars, hal_pwm, released>>]_vars

\* setup_gpio returned under BOARD numbering with two handles acquired.
C16_Witness ==
    /\ last.op = "setup_gpio"
    /\ last.outcome = "ok"
    /\ mode = BOARD
    /\ kind[1] # "none"
    /\ kind[2] # "none"

\* The pins some board of the capability table lists as PWM-capable.
PwmCapableSomewhere == UNION {ToSet(Lookup(m).pwm_capable) : m \in Models}

\* C17: constructing a PWMPin on a pin the board does not list as PWM-capable
\* fails without configuring the pin; in particular no header pin that no
\* board lists is ever set up or given a PWM channel by the constructor.
C17_PwmCapabilityChecked ==
    last.op = "PWMPin"
        => \A i \in 1..Len(last.calls) :
               (last.calls[i].fn \in {"setup", "PWM"} /\ last.calls[i].pin \in 1..40)
                   => last.calls[i].pin \in PwmCapableSomewhere

\* C18: get_available_pins never fails; for an unknown model it returns a
\* non-empty digital list and an empty pwm_capable list, and for
\* JETSON_ORIN_NANO a pwm_capable list holding 15 and 33.
C18_LookupTotal ==
    last.op = "get_available_pins"
        => /\ last.outcome = "ok"
           /\ last.ret.model \notin {"JETSON_ORIN_NANO", "JETSON_ORIN_NX", "JETSON_ORIN"}
                => (Len(last.ret.digital) > 0 /\ last.ret.pwm_capable = <<>>)
           /\ last.ret.model = "JETSON_ORIN_NANO"
                => {15, 33} \subseteq ToSet(last.ret.pwm_capable)

\* The lookup answered for a model that is not in the table.
C18_Witness ==
    /\ last.op = "get_available_pins"
    /\ last.ret.model = "FOO_BOARD"
    /\ last.ret.pwm_capable = <<>>

\* C19: cleanup() of a handle whose pin is already released is a no-op: unless
\* the library itself raises, it returns normally and changes neither the
\* pins' configuration nor any channel nor which handles are released.
C19_SecondReleaseNoOp ==
    [][(last'.op = "cleanup" /\ released[last'.h] /\ last'.outcome # "HardwareFault")
         => /\ last'.outcome = "ok"
            /\ UNCHANGED <<function, level, hal_pwm, released>>]_vars

\* C20: a cleanup_gpio() that returns leaves no pin configured and no handle
\* live, with no numbering mode in the way of a new acquisition; the wrapper
\* adds no error of its own, whether or not any pin was claimed.
C20_CleanupAllReleasesEverything ==
    last.op = "cleanup_gpio"
        => /\ last.calls = <<Call("cleanup", 0, None, None, 0)>>
           /\ last.outcome \in {"ok", "HardwareFault"}
           /\ last.outcome = "ok"
                => /\ \A p \in PinInputs : function[p] = None /\ level[p] = None
                   /\ \A h \in Handles : ~Live(h)
                   /\ mode \in {None, BOARD}

\* cleanup_gpio returned with two handles' pins claimed before it.
C20_Witness ==
    /\ last.op = "cleanup_gpio"
    /\ last.outcome = "ok"
    /\ kind[1] # "none" /\ released[1]
    /\ kind[2] # "none" /\ released[2]
    /\ \A p \in PinInputs : function[p] = None

\* The channel of PWMPin h puts a signal on its pin: the PWM object is running
\* and the pin is still set up as the output the constructor made it.
Generating(h) == hal_pwm[h].running /\ function[pin_number[h]] = OUT

\* C21: in every reachable state a PWMPin whose running flag is true has a
\* channel that is generating a signal.
C21_RunningMeansGenerating ==
    \A h \in Handles : (kind[h] = "pwm" /\ started[h]) => Generating(h)

\* C22: a PWMPin is created stopped, with duty cycle 0 and the frequency
\* given; its running flag goes from false to true only by a start that
\* returned and from true to false only by its stop, directly or as run by
\* its cleanup or destructor; and change_duty_cycle and change_frequency
\* never change the flag.
C22_RunningFlagStateMachine ==
    [][/\ (last'.op = "PWMPin" /\ last'.outcome = "ok")
            => /\ ~started'[last'.h]
               /\ duty_cycle'[last'.h] = 0
               /\ frequency'[last'.h] = last'.arg
       /\ \A h \in Handles :
            /\ (~started[h] /\ started'[h])
                 => (last'.op = "start" /\ last'.h = h /\ last'.outcome = "ok")
            /\ (started[h] /\ ~started'[h])
                 => /\ last'.op \in {"stop", "cleanup", "__del__"}
                    /\ last'.h = h
                    /\ last'.calls[1].fn = "pwm.stop"
       /\ last'.op \in {"change_duty_cycle", "change_frequency"} => started' = started]_vars

\* A running PWMPin was stopped by stop(): created, started, stopped.
C22_Witness ==
    /\ last.op = "stop"
    /\ last.outcome = "ok"
    /\ PwmCalls(last.calls) # {}
    /\ kind[last.h] = "pwm"
    /\ ~started[last.h]
    /\ frequency[last.h] = 1000

\* C23: cleanup() of a PWMPin that is running first stops the channel and
\* only then releases the pin: whenever it calls GPIO.cleanup, the stop call
\* came before it and the handle is no longer marked running; a stopped
\* PWMPin is released without any call to its channel.
C23_StopBeforeRelease ==
    [][(last'.op = "cleanup" /\ kind[last'.h] = "pwm")
         => LET h == last'.h
                calls == last'.calls
            IN  /\ started[h] => (calls # <<>> /\ calls[1].fn = "pwm.stop")
                /\ ~started[h] => PwmCalls(calls) = {}
                /\ \A i \in 1..Len(calls) :
                     calls[i].fn = "cleanup"
                       => /\ ~started'[h]
                          /\ ~hal_pwm'[h].running
                          /\ started[h] => \E j \in 1..(i - 1) : calls[j].fn = "pwm.stop"]_vars

\* A running PWMPin was released: stop, then GPIO.cleanup of its pin.
C23_Witness ==
    /\ last.op = "cleanup"
    /\ last.outcome = "ok"
    /\ kind[last.h] = "pwm"
    /\ Len(last.calls) = 2
    /\ last.calls[2].fn = "cleanup"
    /\ released[last.h]
    /\ ~started[last.h]

\* The inverse of a level, with an unset level counted as LOW.
Invert(v) == IF v = HIGH THEN LOW ELSE HIGH

\* C24: toggle() on an output handle does what a write of the inverse of the
\* cached value does: one GPIO.output of that level to the handle's pin and,
\* when it returns, that level as the cached value and as the pin's level,
\* with nothing else changed; an unset cached value counts as LOW, so HIGH is
\* written.
C24_ToggleIsWriteOfInverse ==
    [][/\ ToggleTarget(None) = HIGH
       /\ (last'.op = "toggle" /\ direction[last'.h] = OUT)
            => LET h == last'.h
                   v == Invert(current_value[h])
               IN  /\ last'.calls = <<Call("output", pin_number[h], None, v, 0)>>
                   /\ last'.outcome \in {"ok", "HardwareFault"}
                   /\ last'.outcome = "ok"
                        => /\ current_value' = [current_value EXCEPT ![h] = v]
                           /\ level' = [level EXCEPT ![pin_number[h]] = v]
                   /\ last'.outcome = "HardwareFault" => UNCHANGED <<current_value, level>>
                   /\ UNCHANGED <<kind, pin_number, direction, frequency, duty_cycle, started,
                                  mode, function, hal_pwm, released>>]_vars

\* An output handle acquired HIGH was toggled: LOW went to the pin.
C24_Witness ==
    /\ last.op = "toggle"
    /\ last.outcome = "ok"
    /\ last.prev = HIGH
    /\ current_value[last.h] = LOW
    /\ level[pin_number[last.h]] = LOW
    /\ ncalls = 2

\* C25: read() on an output handle queries the library for the handle's pin
\* and returns what the library answered, leaving the cached value as it was;
\* the cached value of an output handle changes only in its own construction,
\* set_high, set_low and toggle.
C25_OutputReadIsPassthrough ==
    [][/\ (last'.op = "read" /\ direction[last'.h] = OUT)
            => /\ last'.calls = <<Call("input", pin_number[last'.h], None, None, 0)>>
               /\ current_value' = current_value
               /\ last'.outcome = "ok" => last'.ret \in LevelInputs
       /\ \A h \in Handles :
            (direction'[h] = OUT /\ current_value'[h] # current_value[h])
                => /\ last'.h = h
                   /\ last'.op \in {"DigitalPin", "set_high", "set_low", "toggle"}]_vars

\* read() of an output handle returned HIGH while the cached value stayed LOW.
C25_Witness ==
    /\ last.op = "read"
    /\ last.outcome = "ok"
    /\ direction[last.h] = OUT
    /\ last.ret = HIGH
    /\ last.prev = LOW
    /\ current_value[last.h] = LOW

\* The methods of a constructed handle that use its pin without acquiring or
\* releasing it.
HandleOps == {"read", "set_high", "set_low", "toggle",
              "start", "stop", "change_frequency", "change_duty_cycle"}

C27_NoPartialMutationOnFault ==
    [][(last'.op \in {"start", "change_duty_cycle", "change_frequency"}
           /\ last'.outcome = "HardwareFault")
         => /\ duty_cycle' = duty_cycle
            /\ frequency' = frequency
            /\ started' = started]_vars

\* C28: on every exit path of blink_led that got past GPIO.setup, whether the
\* loop ran to its end or one of its writes or sleeps raised, the last call
\* blink_led issued is a GPIO.output of LOW to its pin; and when blink_led
\* returns, the pin is LOW.
C28_BlinkEndsLow ==
    last.op = "blink_led"
        => LET calls == last.calls
               final == calls[Len(calls)]
           IN  /\ final.fn \in {"setup", "output"}
               /\ final.fn = "setup"
                    => /\ last.outcome = "HardwareFault"
                       /\ \A i \in 1..Len(calls) : calls[i].fn # "output"
               /\ final.fn = "output" => (final.val = LOW /\ final.pin = last.arg)
               /\ last.outcome = "ok"
                    => (function[last.arg] = OUT /\ level[last.arg] = LOW)

\* blink_led was interrupted in a sleep while the pin was HIGH and still
\* issued the final write.
C28_Witness ==
    /\ last.op = "blink_led"
    /\ last.outcome = "Interrupted"
    /\ Len(last.calls) >= 4
    /\ last.calls[Len(last.calls) - 1].fn = "sleep"
    /\ last.calls[Len(last.calls) - 2].val = HIGH
    /\ level[last.arg] = LOW

\* C29: a DigitalPin constructor that raises ValueError for its direction
\* (the numbering mode being unset or BOARD, so that the mode is not what it
\* rejects) has issued no GPIO.setup and has changed nothing at the library,
\* the numbering mode included.
C29_BadDirectionChangesNothing ==
    [][(last'.op = "DigitalPin" /\ last'.outcome = "ValueError" /\ mode \in {None, BOARD})
         => /\ \A i \in 1..Len(last'.calls) : last'.calls[i].fn # "setup"
            /\ UNCHANGED <<mode, function, level, hal_pwm>>]_vars

\* C30: whatever the board model, known or not, the entry get_available_pins
\* returns is well-formed: every pwm_capable pin is also a digital pin, and
\* every pin it lists, the annotated pins of a known board included, lies in
\* 1..40.
C30_TableWellFormed ==
    last.op = "get_available_pins"
        => /\ ToSet(last.ret.pwm_capable) \subseteq ToSet(last.ret.digital)
           /\ ToSet(last.ret.digital) \subseteq 1..40
           /\ ToSet(last.ret.pwm_capable) \subseteq 1..40
           /\ last.ret.model # "FOO_BOARD" => ToSet(last.ret.notes) \subseteq 1..40

\* The lookup answered for JETSON_ORIN, whose PWM pins are 15 and 18.
C30_Witness ==
    /\ last.op = "get_available_pins"
    /\ last.ret.model = "JETSON_ORIN"
    /\ ToSet(last.ret.pwm_capable) = {15, 18}
    /\ Len(last.ret.digital) = 22

====
